---- MODULE Spec2Model ----
(***************************************************************************)
(* Receipt-printer server: the email admission pipeline of server.js       *)
(* (POST /webhook/email) and the rate limiter of email-handler.js.         *)
(*                                                                         *)
(* Each webhook request is a JavaScript async handler.  Between two        *)
(* `await`s the handler runs without interruption, so one action of this    *)
(* model is one such synchronous block: it starts where a collaborator     *)
(* call returns and ends at the next `await` (or at the handler's end).     *)
(* The callback passed to device.open is a block of its own.  Collaborator  *)
(* results (resend.emails.send / get, moderateImage's HTTP call,            *)
(* processImageForPrinting, the escpos device) are chosen with \E among     *)
(* the results the call can have.                                          *)
(*                                                                         *)
(* email-handler.js holds two copies of the module.  The limiter functions *)
(* are the same in both; RATE_LIMIT_PER_DAY is 3 in the first copy (and in  *)
(* EMAIL_SETUP.md) and 5 in the second.  moderateImage exists only in the   *)
(* second copy, which is the one server.js calls into; the numbers and the  *)
(* functions below are those of the second copy.                           *)
(***************************************************************************)
EXTENDS Integers, Sequences, FiniteSets, TLC

(***************************************************************************)
(* Program constants                                                       *)
(***************************************************************************)
RATE_LIMIT_PER_DAY == 5

MAX_TEXT_LENGTH == 500

MAX_IMAGES_PER_EMAIL == 2

MAX_IMAGE_SIZE_MB == 5

MAX_TOTAL_EMAIL_SIZE_MB == 10

(***************************************************************************)
(* Bounds of the model                                                     *)
(***************************************************************************)
\* webhook requests handled at the same time
MaxInFlight == 3

\* attachments of one email
MaxAttachments == 3

\* calendar days the limiter specification runs through
MaxDay == 3

\* calls of checkRateLimit counted per day in the limiter specification
MaxCalls == 7

\* requests of one sender numbered per day in SpecDay
MaxArrivals == 7

\* handlers between their check and their increment when midnight passes
MaxLate == 1

\* pixels of the black-and-white images given to processImageForPrinting
MaxPixels == 10

\* pixels of the grey and coloured images given to processImageForPrinting
MaxGrayPixels == 4

\* width and height of the images whose dimensions alone are computed
MaxSide == 49

\* maxWidth of those images
MaxTarget == 3

Slots == 1 .. MaxInFlight

(***************************************************************************)
(* Senders and calendar days.  A day is a number; its ISO date string      *)
(* (toISOString().split('T')[0]) is what the key of a record ends with.    *)
(* The address DATED contains the ISO date of day 1 as a substring          *)
(* (for instance "2026-11-01@x.com"); PLAIN contains no date.               *)
(***************************************************************************)
PLAIN == "plain@x.com"

DATED == "date-of-day-1@x.com"

Senders == {PLAIN, DATED}

\* the days whose ISO date strings occur inside the address
DateInAddress(email) == IF email = DATED THEN {1} ELSE {}

VARIABLES
  resend,          \* RESEND_API_KEY is set: the Resend client exists
  webhookSecret,   \* RESEND_WEBHOOK_SECRET is set
  openaiKey,       \* OPENAI_API_KEY is set
  today,           \* the current calendar day (UTC)
  rateLimits,      \* the Map of email-handler.js: key <<email, day>> -> count
  req,             \* per slot: the webhook handler's position and locals
  hist,            \* per sender: the requests received today (SpecDay only)
  lim,             \* the calls made on the limiter (SpecLimiter only)
  fcall            \* the latest direct call of a function: its name, argument, result

vars == <<resend, webhookSecret, openaiKey, today, rateLimits, req, hist, lim, fcall>>

(***************************************************************************)
(* email-handler.js: the rate limiter                                      *)
(***************************************************************************)
getRateLimitKey(email, day) == <<email, day>>

\* rateLimits.get(key) || 0
Count(table, key) == IF key \in DOMAIN table THEN table[key] ELSE 0

\* checkRateLimit with the comparison off by one (count > RATE_LIMIT_PER_DAY)
checkRateLimitOffByOne(table, senderEmail, day) ==
  LET key == getRateLimitKey(senderEmail, day)
      count == Count(table, key)
  IN  IF count > RATE_LIMIT_PER_DAY
        THEN [allowed |-> FALSE, remaining |-> 0]
        ELSE [allowed |-> TRUE, remaining |-> RATE_LIMIT_PER_DAY - count]

checkRateLimit(table, senderEmail, day) ==
  LET count == Count(table, getRateLimitKey(senderEmail, day))
  IN  IF count >= RATE_LIMIT_PER_DAY
        THEN [allowed |-> FALSE, remaining |-> 0]
        ELSE [allowed |-> TRUE, remaining |-> RATE_LIMIT_PER_DAY - count]

incrementRateLimit(table, senderEmail, day) ==
  LET key == getRateLimitKey(senderEmail, day)
      count == Count(table, key)
  IN  [k \in DOMAIN table \cup {key} |-> IF k = key THEN count + 1 ELSE table[k]]

\* key.includes(<ISO date of day d>): the key is `${email}:${date}`
KeyIncludes(key, d) == key[2] = d \/ d \in DateInAddress(key[1])

cleanupTwoDaysBack(table, day) ==
  LET yesterday == day - 2
      kept == {k \in DOMAIN table : ~KeyIncludes(k, yesterday)}
  IN  [k \in kept |-> table[k]]

cleanupOldRateLimits(table, day) ==
  LET yesterday == day - 1
      kept == {k \in DOMAIN table : ~KeyIncludes(k, yesterday)}
  IN  [k \in kept |-> table[k]]

(***************************************************************************)
(* email-handler.js: content checks                                        *)
(***************************************************************************)
\* A text is what moderateContent reads of it: whether its lower-cased form
\* contains a blocked keyword, and its length.
NoText == [keyword |-> FALSE, length |-> 0]

CleanText == [keyword |-> FALSE, length |-> 50]

BadText == [keyword |-> TRUE, length |-> 50]

\* a text of MAX_TEXT_LENGTH + 1 characters without blocked keyword
LongText == [keyword |-> FALSE, length |-> MAX_TEXT_LENGTH + 1]

Texts == {NoText, CleanText, BadText, LongText}

\* The moderateContent that server.js calls (lines 216-230) checks the blocked
\* keywords only; it never reads text.length or MAX_TEXT_LENGTH.
moderateContent(text) ==
  IF text.keyword
    THEN [allowed |-> FALSE, reason |-> "Content contains inappropriate language"]
    ELSE [allowed |-> TRUE, reason |-> ""]

\* An attachment is its content type (image/* or not) and its size in MB.
AttachmentSizes == {1, 5, 6}

Attachments == [type : {"image", "other"}, size : AttachmentSizes]

RECURSIVE ListsOver(_, _)
ListsOver(S, n) ==
  IF n = 0 THEN {<<>>}
  ELSE LET shorter == ListsOver(S, n - 1)
       IN  shorter \cup {Append(l, a) : l \in {x \in shorter : Len(x) = n - 1}, a \in S}

AttachmentLists == ListsOver(Attachments, MaxAttachments)

RECURSIVE FilterImages(_)
FilterImages(atts) ==
  IF atts = <<>> THEN <<>>
  ELSE IF Head(atts).type = "image"
         THEN <<Head(atts)>> \o FilterImages(Tail(atts))
         ELSE FilterImages(Tail(atts))

RECURSIVE TotalSize(_)
TotalSize(imgs) == IF imgs = <<>> THEN 0 ELSE Head(imgs).size + TotalSize(Tail(imgs))

\* validateImages with the size check made before the count check
validateImagesSizeFirst(attachments) ==
  IF Len(attachments) = 0 THEN [allowed |-> TRUE, reason |-> ""]
  ELSE LET imageAttachments == FilterImages(attachments)
       IN  IF \E i \in 1 .. Len(imageAttachments) :
                imageAttachments[i].size > MAX_IMAGE_SIZE_MB
             THEN [allowed |-> FALSE, reason |-> "Image too large"]
           ELSE IF Len(imageAttachments) > MAX_IMAGES_PER_EMAIL
             THEN [allowed |-> FALSE, reason |-> "Too many images"]
           ELSE IF TotalSize(imageAttachments) > MAX_TOTAL_EMAIL_SIZE_MB
             THEN [allowed |-> FALSE, reason |-> "Total email too large"]
           ELSE [allowed |-> TRUE, reason |-> ""]

\* validateImages with the total rejected from MAX_TOTAL_EMAIL_SIZE_MB on
validateImagesTotalAtLeast(attachments) ==
  IF Len(attachments) = 0 THEN [allowed |-> TRUE, reason |-> ""]
  ELSE LET imageAttachments == FilterImages(attachments)
       IN  IF Len(imageAttachments) > MAX_IMAGES_PER_EMAIL
             THEN [allowed |-> FALSE, reason |-> "Too many images"]
           ELSE IF \E i \in 1 .. Len(imageAttachments) :
                     imageAttachments[i].size > MAX_IMAGE_SIZE_MB
             THEN [allowed |-> FALSE, reason |-> "Image too large"]
           ELSE IF TotalSize(imageAttachments) >= MAX_TOTAL_EMAIL_SIZE_MB
             THEN [allowed |-> FALSE, reason |-> "Total email too large"]
           ELSE [allowed |-> TRUE, reason |-> ""]

\* `attachments` absent (undefined) takes the branch of the empty list, line 233
validateImages(attachments) ==
  IF Len(attachments) = 0 THEN [allowed |-> TRUE, reason |-> ""]
  ELSE LET imageAttachments == FilterImages(attachments)
       IN  IF Len(imageAttachments) > MAX_IMAGES_PER_EMAIL
             THEN [allowed |-> FALSE, reason |-> "Too many images"]
           ELSE IF \E i \in 1 .. Len(imageAttachments) :
                     imageAttachments[i].size > MAX_IMAGE_SIZE_MB
             THEN [allowed |-> FALSE, reason |-> "Image too large"]
           ELSE IF TotalSize(imageAttachments) > MAX_TOTAL_EMAIL_SIZE_MB
             THEN [allowed |-> FALSE, reason |-> "Total email too large"]
           ELSE [allowed |-> TRUE, reason |-> ""]

\* What the call to the vision API can do: throw (network, or an answer without
\* choices[0].message.content), answer with a non-OK status, answer with a
\* text that contains "unsafe", answer with a text that does not.  Without
\* OPENAI_API_KEY no call is made ("none").
ModerationCalls == {"throws", "not_ok", "unsafe", "safe"}

moderateImage(call) ==
  IF ~openaiKey THEN [allowed |-> TRUE, reason |-> ""]
  ELSE IF call = "throws" THEN [allowed |-> FALSE, reason |-> "Unable to verify image safety"]
  ELSE IF call = "not_ok" THEN [allowed |-> FALSE, reason |-> "Unable to verify image safety"]
  ELSE IF call = "unsafe" THEN [allowed |-> FALSE, reason |-> "Image contains inappropriate content"]
  ELSE [allowed |-> TRUE, reason |-> ""]

(***************************************************************************)
(* server.js: authenticate                                                 *)
(*                                                                         *)
(* The Authorization header is absent or a string.  A string is a sequence *)
(* of symbols: BEARER stands for an occurrence of the seven characters     *)
(* 'Bearer ', every other symbol for one other character.                  *)
(***************************************************************************)
BEARER == "Bearer "

\* process.env.AUTH_TOKEN: the server exits at start when it is empty
AUTH_TOKEN == <<"a", "b">>

NoAuthorization == [present |-> FALSE, value |-> <<>>]

Authorization(value) == [present |-> TRUE, value |-> value]

AuthorizationHeaders ==
  { NoAuthorization,
    Authorization(<<BEARER>>),
    Authorization(<<BEARER, "a">>),
    Authorization(<<BEARER, "a", "b">>),
    Authorization(<<"a", "b">>),
    Authorization(<<"a", BEARER, "b">>) }

\* String.prototype.replace(pattern, '') with a string pattern: the first
\* occurrence only
RECURSIVE ReplaceFirst(_, _)
ReplaceFirst(str, pattern) ==
  IF str = <<>> THEN <<>>
  ELSE IF Head(str) = pattern THEN Tail(str)
  ELSE <<Head(str)>> \o ReplaceFirst(Tail(str), pattern)

\* TRUE when the middleware calls next(), FALSE when it answers 401
authenticate(authorization) ==
  LET token == ReplaceFirst(authorization.value, BEARER)
  IN  ~(~authorization.present \/ token = <<>> \/ token # AUTH_TOKEN)

(***************************************************************************)
(* email-handler.js: verifyWebhookSignature                                *)
(*                                                                         *)
(* The svix headers of a request: whether svix-id and svix-timestamp are   *)
(* present, and the entries of svix-signature (split on ' ', each split on *)
(* ','): the entry's version and whether its signature equals the HMAC the *)
(* function computes.  A missing or empty svix-signature has no entries.   *)
(***************************************************************************)
NoHeaders == [id |-> FALSE, timestamp |-> FALSE, signature |-> <<>>]

SvixEntry(version, matches) == [version |-> version, matches |-> matches]

SvixHeaders ==
  { [id |-> FALSE, timestamp |-> TRUE, signature |-> <<SvixEntry("v1", TRUE)>>],
    [id |-> TRUE, timestamp |-> FALSE, signature |-> <<SvixEntry("v1", TRUE)>>],
    [id |-> TRUE, timestamp |-> TRUE, signature |-> <<>>],
    [id |-> TRUE, timestamp |-> TRUE, signature |-> <<SvixEntry("v1", FALSE)>>],
    [id |-> TRUE, timestamp |-> TRUE, signature |-> <<SvixEntry("v2", TRUE)>>],
    [id |-> TRUE, timestamp |-> TRUE,
     signature |-> <<SvixEntry("v2", TRUE), SvixEntry("v1", TRUE)>>] }

\* verifyWebhookSignature accepting an entry of any version
verifyAnyVersion(headers) ==
  IF ~headers.id \/ ~headers.timestamp \/ Len(headers.signature) = 0
    THEN FALSE
    ELSE \E i \in 1 .. Len(headers.signature) : headers.signature[i].matches

verifyWebhookSignature(headers) ==
  IF ~headers.id \/ ~headers.timestamp \/ Len(headers.signature) = 0
    THEN FALSE
    ELSE \E i \in 1 .. Len(headers.signature) :
           /\ headers.signature[i].version = "v1"
           /\ headers.signature[i].matches

(***************************************************************************)
(* image-processor.js                                                      *)
(*                                                                         *)
(* Pixel data is the RGBA byte sequence of getImageData: the pixel (x, y)  *)
(* of a width-wide image has its red, green, blue and alpha bytes at the   *)
(* 0-based indexes idx .. idx + 3, idx = (y * width + x) * 4, which are    *)
(* the 1-based positions idx + 1 .. idx + 4 of the sequence.               *)
(*                                                                         *)
(* ditherImage works in a Uint8ClampedArray: every `pixels[i] += v` stores *)
(* ToUint8Clamp(pixels[i] + v), the sum clamped to 0 .. 255 and rounded to *)
(* the nearest integer, a tie to the even one.  oldPixel is a third of an  *)
(* integer and the diffused terms are 48ths of integers, so the model      *)
(* keeps sum = 3 * oldPixel, err3 = 3 * error and q48 = 48 * (the value    *)
(* stored).  The doubles of JavaScript give these operations the exact     *)
(* result, with one exception: for the channel sums of DoubleAbove and     *)
(* DoubleBelow the double error * 3 / 16 misses its exact value, a half of *)
(* an odd integer, by one unit in the last place, and added to a channel   *)
(* it yields a double just above or just below the tie when the sum is     *)
(* under 16.                                                               *)
(***************************************************************************)
DoubleAbove == {517, 541, 565, 589, 613, 637, 661, 685, 709, 733, 757}

DoubleBelow == {533, 557, 581, 605, 629, 653, 677, 701, 725, 749}

\* where the double pixels[i] + error * w / 16 lies when the exact sum is a tie
DoubleTie(sum, w, q48) ==
  IF w = 3 /\ q48 < 16 * 48 /\ sum \in DoubleAbove THEN "above"
  ELSE IF w = 3 /\ q48 < 16 * 48 /\ sum \in DoubleBelow THEN "below"
  ELSE "tie"

\* the conversion of a store into a Uint8ClampedArray, of the value q48 / 48
ToUint8Clamp(q48, tie) ==
  IF q48 <= 0 THEN 0
  ELSE IF q48 >= 255 * 48 THEN 255
  ELSE LET f == q48 \div 48
           r == q48 % 48
       IN  IF r > 24 THEN f + 1
           ELSE IF r < 24 THEN f
           ELSE IF tie = "above" THEN f + 1
           ELSE IF tie = "below" THEN f
           ELSE IF f % 2 = 0 THEN f ELSE f + 1

\* pixels[i] += error * w / 16, lines 24, 32, 38, 44 (i is 0-based)
AddError(pixels, i, sum, err3, w) ==
  LET q48 == 48 * pixels[i + 1] + w * err3
  IN  [pixels EXCEPT ![i + 1] = ToUint8Clamp(q48, DoubleTie(sum, w, q48))]

\* the three stores of lines 24-26 (32-34, 38-40, 44-46)
Diffuse(pixels, idx, sum, err3, w) ==
  AddError(AddError(AddError(pixels, idx, sum, err3, w), idx + 1, sum, err3, w),
           idx + 2, sum, err3, w)

\* newPixel with the comparison the wrong way round
newPixelInverted(sum) == IF sum > 3 * 128 THEN 0 ELSE 255

\* line 13: oldPixel < 128 ? 0 : 255, for oldPixel = sum / 3
newPixelOf(sum) == IF sum < 3 * 128 THEN 0 ELSE 255

\* lines 7-50 from the pixel n = y * width + x on
RECURSIVE DitherFrom(_, _, _, _)
DitherFrom(pixels, width, height, n) ==
  IF n >= width * height THEN pixels
  ELSE
    LET y == n \div width
        x == n % width
        idx == (y * width + x) * 4
        sum == pixels[idx + 1] + pixels[idx + 2] + pixels[idx + 3]
        newPixel == newPixelOf(sum)
        err3 == sum - 3 * newPixel
        p0 == [pixels EXCEPT ![idx + 1] = newPixel, ![idx + 2] = newPixel,
                             ![idx + 3] = newPixel]
        p1 == IF x + 1 < width
                THEN Diffuse(p0, (y * width + (x + 1)) * 4, sum, err3, 7)
                ELSE p0
        p2 == IF y + 1 < height /\ x > 0
                THEN Diffuse(p1, ((y + 1) * width + (x - 1)) * 4, sum, err3, 3)
                ELSE p1
        p3 == IF y + 1 < height
                THEN Diffuse(p2, ((y + 1) * width + x) * 4, sum, err3, 5)
                ELSE p2
        p4 == IF y + 1 < height /\ x + 1 < width
                THEN Diffuse(p3, ((y + 1) * width + (x + 1)) * 4, sum, err3, 1)
                ELSE p3
    IN  DitherFrom(p4, width, height, n + 1)

ditherImage(imageData, width, height) == DitherFrom(imageData, width, height, 0)

\* a | b for 0 <= a, b < 256
RECURSIVE BitOr(_, _)
BitOr(a, b) ==
  IF a = 0 THEN b
  ELSE IF b = 0 THEN a
  ELSE 2 * BitOr(a \div 2, b \div 2) + (IF a % 2 = 1 \/ b % 2 = 1 THEN 1 ELSE 0)

\* lines 105-114 from the pixel x of row y on
RECURSIVE PackLine(_, _, _, _, _)
PackLine(pixels, width, y, x, line) ==
  IF x >= width THEN line
  ELSE
    LET idx == (y * width + x) * 4
        isBlack == pixels[idx + 1] < 128
        byteIndex == x \div 8
        bitIndex == 7 - (x % 8)
    IN  PackLine(pixels, width, y, x + 1,
                 IF isBlack
                   THEN [line EXCEPT ![byteIndex + 1] = BitOr(@, 2 ^ bitIndex)]
                   ELSE line)

\* lines 102-117 from row y on
RECURSIVE PackRows(_, _, _, _)
PackRows(pixels, width, height, y) ==
  IF y >= height THEN <<>>
  ELSE LET bytesPerLine == (width + 7) \div 8
           line == [b \in 1 .. bytesPerLine |-> 0]
       IN  PackLine(pixels, width, y, 0, line) \o PackRows(pixels, width, height, y + 1)

\* convertToBitmap packing the pixel x into bit x % 8, least significant first
convertToBitmapLsbFirst(pixels, width, height) ==
  LET bytesPerLine == (width + 7) \div 8
      Byte(y, b) ==
        LET xs == {x \in 8 * b .. 8 * b + 7 :
                     x < width /\ pixels[(y * width + x) * 4 + 1] < 128}
            RECURSIVE Sum(_)
            Sum(S) == IF S = {} THEN 0
                      ELSE LET x == CHOOSE e \in S : TRUE
                           IN  2 ^ (x % 8) + Sum(S \ {x})
        IN  Sum(xs)
  IN  [i \in 1 .. height * bytesPerLine |->
         Byte((i - 1) \div bytesPerLine, (i - 1) % bytesPerLine)]

\* Buffer.from(bitmap) keeps each number modulo 256
convertToBitmap(pixels, width, height) ==
  LET bitmap == PackRows(pixels, width, height, 0)
  IN  [i \in 1 .. Len(bitmap) |-> bitmap[i] % 256]

DEFAULT_MAX_WIDTH == 576

\* The pixels of an image: red, green, blue, alpha.
BLACK == <<0, 0, 0, 255>>

WHITE == <<255, 255, 255, 255>>

BinaryPixels == {BLACK, WHITE}

GrayPixels ==
  { BLACK, WHITE, <<84, 84, 84, 255>>, <<100, 100, 100, 255>>,
    <<250, 250, 250, 255>>, <<0, 255, 0, 255>> }

RECURSIVE Flatten(_)
Flatten(list) == IF list = <<>> THEN <<>> ELSE Head(list) \o Flatten(Tail(list))

\* the decoded images (loadImage) of up to n pixels over a set of pixels
Images(pixelSet, n) ==
  { [width |-> t[2], height |-> t[3], data |-> Flatten(t[1])] :
      t \in {u \in ListsOver(pixelSet, n) \X (1 .. n) \X (1 .. n) :
               u[2] * u[3] = Len(u[1])} }


(***************************************************************************)
(* image-processor.js: the dimensions, lines 62-69.  width, height and     *)
(* maxWidth are JavaScript Numbers: `maxWidth / width` and `height * ratio`*)
(* are IEEE-754 double operations, each rounding its exact result to 53    *)
(* significant bits, a tie to the even one.  A positive double is its      *)
(* 53-bit significand and the exponent of the significand's last bit: its  *)
(* value is sig * 2^exp.  The significand is held as three digits of base  *)
(* 2^18, most significant first (the first one has 17 bits), so that every *)
(* intermediate result fits a machine integer for operands below 2^12.     *)
(***************************************************************************)
LIMB == 2 ^ 18

\* the number of binary digits of n
RECURSIVE BitLength(_)
BitLength(n) == IF n = 0 THEN 0 ELSE 1 + BitLength(n \div 2)

\* the least s with a * 2^s >= b
RECURSIVE ShiftUp(_, _)
ShiftUp(a, b) == IF a >= b THEN 0 ELSE 1 + ShiftUp(2 * a, b)

\* sig + 1 on the three digits; the significand 2^53 becomes 2^52, one exponent up
IncDouble(sig, exp) ==
  LET d0 == sig[3] + 1
      d1 == sig[2] + d0 \div LIMB
      d2 == sig[1] + d1 \div LIMB
  IN  IF d2 = 2 ^ 17
        THEN [sig |-> <<2 ^ 16, 0, 0>>, exp |-> exp + 1]
        ELSE [sig |-> <<d2, d1 % LIMB, d0 % LIMB>>, exp |-> exp]

\* round to nearest, ties to even: guard is the first bit dropped, sticky
\* whether a later dropped bit is 1
RoundDouble(sig, exp, guard, sticky) ==
  IF guard = 1 /\ (sticky \/ sig[3] % 2 = 1)
    THEN IncDouble(sig, exp)
    ELSE [sig |-> sig, exp |-> exp]

\* the double a / b for integers 0 < a < b < 2^12: with a * 2^s in [b, 2b), the
\* 53 bits of a * 2^s / b by long division in base 2^18, then the rounding
DivDouble(a, b) ==
  LET s == ShiftUp(a, b)
      r2 == a * 2 ^ s * 2 ^ 16
      r1 == (r2 % b) * LIMB
      r0 == (r1 % b) * LIMB
      rest == 2 * (r0 % b)
      guard == IF rest >= b THEN 1 ELSE 0
  IN  RoundDouble(<<r2 \div b, r1 \div b, r0 \div b>>, 0 - (52 + s),
                  guard, rest - guard * b > 0)

\* the double h * d for an integer 0 < h < 2^12 and a double d: the exact
\* product digit by digit, its bits beyond the 53rd dropped, then the rounding
MulDouble(h, d) ==
  LET p0 == d.sig[3] * h
      p1 == d.sig[2] * h + p0 \div LIMB
      top == d.sig[1] * h + p1 \div LIMB
      mid == p1 % LIMB
      low == p0 % LIMB
      extra == BitLength(top) - 17
      cut == 2 ^ extra
      kept == << top \div cut,
                 ((top % cut) * LIMB + mid) \div cut,
                 ((mid % cut) * LIMB + low) \div cut >>
      dropped == low % cut
  IN  IF extra = 0 THEN [sig |-> <<top, mid, low>>, exp |-> d.exp]
      ELSE RoundDouble(kept, d.exp + extra,
                       dropped \div 2 ^ (extra - 1), dropped % 2 ^ (extra - 1) > 0)

\* Math.floor of a positive double below 2^17
MathFloor(d) ==
  LET k == 0 - d.exp
  IN  IF k >= 53 THEN 0 ELSE d.sig[1] \div 2 ^ (k - 36)

\* lines 62-69
Resize(width, height, maxWidth) ==
  IF width > maxWidth
    THEN LET ratio == DivDouble(maxWidth, width)
         IN  [width |-> maxWidth, height |-> MathFloor(MulDouble(height, ratio))]
    ELSE [width |-> width, height |-> height]

\* lines 56-95 for an image decoded by loadImage that drawImage copies to a
\* canvas of the same size (its width is at most maxWidth)
processImageForPrinting(img, maxWidth) ==
  LET size == Resize(img.width, img.height, maxWidth)
      imageData == img.data
      ditheredPixels == ditherImage(imageData, size.width, size.height)
      bitmap == convertToBitmap(ditheredPixels, size.width, size.height)
  IN  [width |-> size.width, height |-> size.height,
       ditheredPixels |-> ditheredPixels, bitmap |-> bitmap]

(***************************************************************************)
(* server.js: app.post('/webhook/email')                                   *)
(*                                                                         *)
(* A slot's record is the handler's position (pc), its locals (sender,     *)
(* message, remaining = rateCheck.remaining, atts = the attachments the    *)
(* for-loop has still to visit, images = images.length), the state of the  *)
(* device it opened (dev) and what the request has done so far: resp (the  *)
(* HTTP response), notes (the notifications handed to resend.emails.send), *)
(* stages (the pipeline stages run), blocked (the stage whose verdict was  *)
(* "not allowed"), touched (a step of this request changed rateLimits),    *)
(* ord (SpecDay: the request is the sender's ord-th of the day).           *)
(*                                                                         *)
(* pc: idle, verify (await verifyWebhookSignature), limitNotify,           *)
(* contentNotify, attNotify, imgNotify, confirm (await resend.emails.send),*)
(* fetch (await resend.emails.get), modImage (await moderateImage),        *)
(* encode (await processImageForPrinting), done.                           *)
(* dev: none, threw (new escpos.USB / device.open threw), opening (open    *)
(* was called, its callback has not run), failed (callback got an error),  *)
(* ok (callback printed the job and closed the device).                    *)
(***************************************************************************)
FreshReq ==
  [pc |-> "idle", path |-> "none", sig |-> NoHeaders, auth |-> NoAuthorization,
   sender |-> "none", message |-> NoText,
   remaining |-> 0, atts |-> <<>>, images |-> 0, dev |-> "none",
   resp |-> "none", notes |-> <<>>, stages |-> <<>>, blocked |-> "none",
   fetchFailed |-> FALSE, modCall |-> "none",
   touched |-> FALSE, ord |-> 0]

\* a request of POST /webhook/email as it arrives
WebhookReq == [FreshReq EXCEPT !.path = "webhook"]

\* the handler returned (or its promise rejected) and no callback is pending
Finished(rec) == rec.pc = "done" /\ rec.dev # "opening"

\* An async handler whose promise rejects: Express 4 leaves the request
\* unanswered, Express 5 hands the error to its default handler (a 500).
UncaughtResponses == {"unanswered", "500_unhandled"}

\* One synchronous block's result: the slot's new record, and whether the block
\* called incrementRateLimit(senderEmail).
Step(rec, inc) == [req |-> rec, inc |-> inc]

\* lines 230-303, from `try {` to the first await after device.open; the
\* increment of line 285 follows device.open(...) in the same block, before the
\* callback can run
PrintBlock(rec) ==
  LET r1 == [rec EXCEPT !.stages = Append(@, "dispatch"), !.atts = <<>>]
  IN  {Step([r1 EXCEPT !.pc = "done", !.dev = "threw", !.resp = "500_print_failed"], FALSE)}
      \cup
      {Step(IF resend
              THEN [r1 EXCEPT !.dev = "opening", !.pc = "confirm",
                              !.notes = Append(@, "confirm")]
              ELSE [r1 EXCEPT !.dev = "opening", !.pc = "done", !.resp = "printed"],
            TRUE)}

RECURSIVE DropOthers(_)
DropOthers(types) ==
  IF types = <<>> THEN <<>>
  ELSE IF Head(types) = "image" THEN types ELSE DropOthers(Tail(types))

\* lines 200-223: the for-loop up to its next await, or past its end.
\* Buffer.from(attachment.content, 'base64') throws when the attachment has no
\* content; the catch of line 225 takes the throw.
NextImage(rec) ==
  LET rest == DropOthers(rec.atts)
  IN  IF rest = <<>>
        THEN PrintBlock(rec)
        ELSE {Step([rec EXCEPT !.atts = rest, !.pc = "modImage",
                               !.stages = Append(@, "moderate")], FALSE)}
             \cup PrintBlock([rec EXCEPT !.atts = rest])

\* lines 136-152: the rate-limit branch, up to its await or its return
RateLimitedBranch(rec) ==
  LET r2 == [rec EXCEPT !.blocked = "rate"]
  IN  IF resend
        THEN {Step([r2 EXCEPT !.pc = "limitNotify", !.notes = Append(@, "limit")], FALSE)}
        ELSE {Step([r2 EXCEPT !.pc = "done", !.resp = "rate_limit"], FALSE)}

\* lines 125-228, from `const event = req.body` to the first await
Body(rec, ev) ==
  IF ev.type # "email.received"
    THEN {Step([rec EXCEPT !.pc = "done", !.resp = "received"], FALSE)}
  ELSE
    LET rateCheck == checkRateLimit(rateLimits, ev.sender, today)
        r1 == [rec EXCEPT !.sender = ev.sender, !.stages = Append(@, "rate"),
                          !.ord = IF hist.on /\ hist.clean[ev.sender]
                                    THEN hist.n[ev.sender] + 1 ELSE 0]
    IN  IF ~rateCheck.allowed
          THEN RateLimitedBranch(r1)
        ELSE
          LET moderation == moderateContent(ev.message)
              r3 == [r1 EXCEPT !.remaining = rateCheck.remaining,
                               !.message = ev.message,
                               !.stages = Append(@, "text")]
          IN  IF ~moderation.allowed
                THEN LET r4 == [r3 EXCEPT !.blocked = "text"]
                     IN  IF resend
                           THEN {Step([r4 EXCEPT !.pc = "contentNotify",
                                                 !.notes = Append(@, "content")], FALSE)}
                           ELSE {Step([r4 EXCEPT !.pc = "done",
                                                 !.resp = "content_filtered"], FALSE)}
              ELSE
                IF resend /\ ev.email_id
                  THEN {Step([r3 EXCEPT !.pc = "fetch"], FALSE)}
                  ELSE PrintBlock(r3)

Events ==
  [type : {"email.received"}, sender : Senders, message : Texts, email_id : BOOLEAN]
  \cup {[type |-> "email.sent", sender |-> PLAIN, message |-> NoText, email_id |-> FALSE]}

\* SpecDay's bookkeeping: a request of sender s arrived (it is the sender's
\* next of the day), or a request of s turned out not clean (a verdict other
\* than the rate limit's blocked it) or its dispatch failed.
Track(old, new) ==
  IF ~hist.on \/ new.sender = "none" THEN hist
  ELSE
    LET s == new.sender
        arrived == old.sender = "none"
        spoiled == \/ new.blocked \in {"text", "attachments", "image"}
                   \/ new.dev \in {"threw", "failed"}
                   \/ arrived /\ hist.n[s] >= MaxArrivals
    IN  IF ~hist.clean[s] \/ spoiled
          THEN [hist EXCEPT !.n[s] = 0, !.clean[s] = FALSE]
          ELSE [hist EXCEPT !.n[s] = IF arrived THEN @ + 1 ELSE @]

\* A block ends: the slot takes its new record and the table the increment, if any.
Apply(r, step) ==
  /\ rateLimits' = IF step.inc
                     THEN incrementRateLimit(rateLimits, step.req.sender, today)
                     ELSE rateLimits
  /\ req' = [req EXCEPT ![r] =
               [step.req EXCEPT !.touched = @ \/ rateLimits' # rateLimits]]
  /\ hist' = Track(req[r], step.req)
  /\ UNCHANGED <<resend, webhookSecret, openaiKey, today, lim, fcall>>

\* A request arrives in a free slot.  With a secret configured the handler
\* first awaits verifyWebhookSignature.
ReceiveFrom(r, events) ==
  /\ req[r].pc \in {"idle", "done"}
  /\ req[r].dev # "opening"
  /\ IF webhookSecret
       THEN \E headers \in SvixHeaders :
              /\ req' = [req EXCEPT ![r] = [WebhookReq EXCEPT !.pc = "verify", !.sig = headers]]
              /\ UNCHANGED <<resend, webhookSecret, openaiKey, today, rateLimits, hist, lim, fcall>>
       ELSE \E ev \in events : \E step \in Body(WebhookReq, ev) :
              /\ Apply(r, step)

Receive(r) == ReceiveFrom(r, Events)

VerifyReturnFrom(r, events) ==
  /\ req[r].pc = "verify"
  /\ IF ~verifyWebhookSignature(req[r].sig)
       THEN /\ req' = [req EXCEPT ![r] = [@ EXCEPT !.pc = "done", !.resp = "401"]]
            /\ UNCHANGED <<resend, webhookSecret, openaiKey, today, rateLimits, hist, lim, fcall>>
       ELSE \E ev \in events : \E step \in Body(req[r], ev) : Apply(r, step)

VerifyReturn(r) == VerifyReturnFrom(r, Events)

\* await resend.emails.send(...) returns or throws, lines 143 and 164:
\* nothing catches the throw
RejectionSent(r, at, response) ==
  /\ req[r].pc = at
  /\ \/ Apply(r, Step([req[r] EXCEPT !.pc = "done", !.resp = response], FALSE))
     \/ \E u \in UncaughtResponses :
          Apply(r, Step([req[r] EXCEPT !.pc = "done", !.resp = u], FALSE))

LimitNotifyReturn(r) == RejectionSent(r, "limitNotify", "rate_limit")

ContentNotifyReturn(r) == RejectionSent(r, "contentNotify", "content_filtered")

\* a fetch failure that ends the request with a 500 instead of printing
FetchFailedAborts(rec) ==
  {Step([rec EXCEPT !.fetchFailed = TRUE, !.pc = "done", !.resp = "500_print_failed"], FALSE)}

\* resend.emails.get(email_id) throws: the catch of line 225 logs the error
\* and the handler goes on to the print block with images = []
FetchFailed(rec) == PrintBlock([rec EXCEPT !.fetchFailed = TRUE])

\* await resend.emails.get(email_id) returns the email or throws, lines 179-198
FetchReturnFrom(r, lists) ==
  /\ req[r].pc = "fetch"
  /\ \/ \E step \in FetchFailed(req[r]) : Apply(r, step)
     \/ \E atts \in lists :
          IF Len(atts) = 0
            THEN \E step \in PrintBlock(req[r]) : Apply(r, step)
          ELSE
            LET imageValidation == validateImages(atts)
                r1 == [req[r] EXCEPT !.stages = Append(@, "validate")]
            IN  IF ~imageValidation.allowed
                  THEN Apply(r, Step([r1 EXCEPT !.pc = "attNotify",
                                                !.blocked = "attachments",
                                                !.notes = Append(@, "attachments")], FALSE))
                  ELSE \E step \in
                         NextImage([r1 EXCEPT !.atts = [i \in 1 .. Len(atts) |-> atts[i].type]]) :
                         Apply(r, step)

FetchReturn(r) == FetchReturnFrom(r, AttachmentLists)

\* await resend.emails.send(...) inside the try of line 178 returns or throws,
\* lines 189-196 and 210-217: the catch of line 225 takes the throw and the
\* handler goes on to the print block
CaughtRejectionSent(r, at, response) ==
  /\ req[r].pc = at
  /\ \/ Apply(r, Step([req[r] EXCEPT !.pc = "done", !.resp = response], FALSE))
     \/ \E step \in PrintBlock(req[r]) : Apply(r, step)

AttNotifyReturn(r) == CaughtRejectionSent(r, "attNotify", "images_too_large")

ImgNotifyReturn(r) == CaughtRejectionSent(r, "imgNotify", "image_content_filtered")

\* await emailHandler.moderateImage(imageBuffer) returns, lines 205-220
ModImageReturn(r) ==
  /\ req[r].pc = "modImage"
  /\ \E call \in (IF openaiKey THEN ModerationCalls ELSE {"none"}) :
       LET imageMod == moderateImage(call)
           r1 == [req[r] EXCEPT !.modCall = call]
       IN  IF ~imageMod.allowed
             THEN Apply(r, Step([r1 EXCEPT !.pc = "imgNotify", !.blocked = "image",
                                           !.notes = Append(@, "image")], FALSE))
             ELSE Apply(r, Step([r1 EXCEPT !.pc = "encode",
                                           !.stages = Append(@, "encode")], FALSE))

\* await imageProcessor.processImageForPrinting(imageBuffer) returns the
\* encoded image or throws, lines 220-227
EncodeReturn(r) ==
  /\ req[r].pc = "encode"
  /\ \/ \E step \in NextImage([req[r] EXCEPT !.images = @ + 1, !.atts = Tail(@)]) :
          Apply(r, step)
     \/ \E step \in PrintBlock(req[r]) : Apply(r, step)

\* await resend.emails.send(...) of the confirmation returns or throws, lines
\* 288-303: the catch of line 300 takes the throw
ConfirmReturn(r) ==
  /\ req[r].pc = "confirm"
  /\ \/ Apply(r, Step([req[r] EXCEPT !.pc = "done", !.resp = "printed"], FALSE))
     \/ Apply(r, Step([req[r] EXCEPT !.pc = "done", !.resp = "500_print_failed"], FALSE))

\* the callback of device.open runs, lines 236-282
DeviceCallback(r) ==
  /\ req[r].path = "webhook"
  /\ req[r].dev = "opening"
  /\ \/ Apply(r, Step([req[r] EXCEPT !.dev = "failed"], FALSE))
     \/ Apply(r, Step([req[r] EXCEPT !.dev = "ok"], FALSE))

(***************************************************************************)
(* server.js: app.post('/print', authenticate, ...)                        *)
(*                                                                         *)
(* The handler has no await: it answers 401 or 400, or opens the device    *)
(* and returns; the response is then sent by the callback of device.open.  *)
(* resp: 401, 400, 500_error (the catch of line 108), 500_open_failed,     *)
(* api_printed.                                                            *)
(***************************************************************************)
ApiMessages == {NoText, CleanText}

\* lines 71-111
ApiPrintBlock(rec) ==
  LET r1 == [rec EXCEPT !.stages = Append(@, "dispatch"), !.pc = "done"]
  IN  { Step([r1 EXCEPT !.dev = "threw", !.resp = "500_error"], FALSE),
        Step([r1 EXCEPT !.dev = "opening"], FALSE) }

\* lines 33-41 and 64-69
ApiBody(rec, message) ==
  IF ~authenticate(rec.auth)
    THEN {Step([rec EXCEPT !.pc = "done", !.resp = "401"], FALSE)}
  ELSE IF message.length = 0
    THEN {Step([rec EXCEPT !.pc = "done", !.resp = "400"], FALSE)}
  ELSE ApiPrintBlock([rec EXCEPT !.message = message])

ApiReceive(r) ==
  /\ req[r].pc \in {"idle", "done"}
  /\ req[r].dev # "opening"
  /\ \E authorization \in AuthorizationHeaders : \E message \in ApiMessages :
       \E step \in ApiBody([FreshReq EXCEPT !.path = "api", !.auth = authorization],
                           message) :
         Apply(r, step)

\* the callback of device.open runs, lines 76-106
ApiDeviceCallback(r) ==
  /\ req[r].path = "api"
  /\ req[r].dev = "opening"
  /\ \/ Apply(r, Step([req[r] EXCEPT !.dev = "failed", !.resp = "500_open_failed"], FALSE))
     \/ Apply(r, Step([req[r] EXCEPT !.dev = "ok", !.resp = "api_printed"], FALSE))

\* setInterval(cleanupOldRateLimits, 60 * 60 * 1000)
Sweep ==
  /\ rateLimits' = cleanupOldRateLimits(rateLimits, today)
  /\ UNCHANGED <<resend, webhookSecret, openaiKey, today, req, hist, lim, fcall>>

(***************************************************************************)
(* Spec: the webhook handler with every input and every collaborator       *)
(* result, one request at a time (slot 1), on one calendar day.            *)
(***************************************************************************)
NoHist == [on |-> FALSE, n |-> [s \in Senders |-> 0], clean |-> [s \in Senders |-> TRUE]]

NoCalls == [sender |-> PLAIN, calls |-> 0, last |-> TRUE, remaining |-> 0,
            fresh |-> FALSE, paired |-> TRUE, owed |-> 0, incs |-> 0,
            swept |-> FALSE, purged |-> FALSE]

NoCall == [fn |-> "none", arg |-> <<>>, result |-> [allowed |-> TRUE, reason |-> ""],
           pending |-> FALSE]

Init ==
  /\ resend \in BOOLEAN
  /\ webhookSecret \in BOOLEAN
  /\ openaiKey \in BOOLEAN
  /\ today = 2
  /\ rateLimits = <<>>
  /\ req = [r \in Slots |-> FreshReq]
  /\ hist = NoHist
  /\ lim = NoCalls
  /\ fcall = NoCall

Next ==
  \/ Receive(1)
  \/ VerifyReturn(1)
  \/ LimitNotifyReturn(1)
  \/ ContentNotifyReturn(1)
  \/ FetchReturn(1)
  \/ AttNotifyReturn(1)
  \/ ModImageReturn(1)
  \/ ImgNotifyReturn(1)
  \/ EncodeReturn(1)
  \/ ConfirmReturn(1)
  \/ DeviceCallback(1)
  \/ Sweep

Spec == Init /\ [][Next]_vars

(***************************************************************************)
(* SpecDay: Spec with the requests of each sender numbered through the     *)
(* day, on a server with every collaborator configured.                    *)
(***************************************************************************)
InitDay ==
  /\ resend = TRUE
  /\ webhookSecret = TRUE
  /\ openaiKey = TRUE
  /\ today = 2
  /\ rateLimits = <<>>
  /\ req = [r \in Slots |-> FreshReq]
  /\ hist = [NoHist EXCEPT !.on = TRUE]
  /\ lim = NoCalls
  /\ fcall = NoCall

SpecDay == InitDay /\ [][Next]_vars

(***************************************************************************)
(* SpecRace: up to MaxInFlight handlers at a time, all for clean text-only *)
(* emails of one sender, with the Resend client configured.                *)
(***************************************************************************)
RaceEvents ==
  {[type |-> "email.received", sender |-> PLAIN, message |-> CleanText, email_id |-> TRUE]}

ReceiveRace(r) == ReceiveFrom(r, RaceEvents)

\* await resend.emails.get(email_id) returns an email without attachments,
\* lines 179-182
FetchReturnRace(r) ==
  /\ req[r].pc = "fetch"
  /\ \E step \in PrintBlock(req[r]) : Apply(r, step)

InitRace ==
  /\ resend = TRUE
  /\ webhookSecret = FALSE
  /\ openaiKey = TRUE
  /\ today = 2
  /\ rateLimits = <<>>
  /\ req = [r \in Slots |-> FreshReq]
  /\ hist = NoHist
  /\ lim = NoCalls
  /\ fcall = NoCall

NextRace ==
  \/ \E r \in Slots : ReceiveRace(r)
  \/ \E r \in Slots : FetchReturnRace(r)
  \/ \E r \in Slots : LimitNotifyReturn(r)
  \/ \E r \in Slots : ConfirmReturn(r)
  \/ \E r \in Slots : DeviceCallback(r)
  \/ Sweep

SpecRace == InitRace /\ [][NextRace]_vars

(***************************************************************************)
(* SpecApi: up to MaxInFlight requests at a time, each a POST /print or a  *)
(* POST /webhook/email of a clean text-only email, on a server without     *)
(* Resend client and webhook secret (the webhook handler then has no       *)
(* await before the print block).                                          *)
(***************************************************************************)
InitApi ==
  /\ resend = FALSE
  /\ webhookSecret = FALSE
  /\ openaiKey = TRUE
  /\ today = 2
  /\ rateLimits = <<>>
  /\ req = [r \in Slots |-> FreshReq]
  /\ hist = NoHist
  /\ lim = NoCalls
  /\ fcall = NoCall

NextApi ==
  \/ \E r \in Slots : ApiReceive(r)
  \/ \E r \in Slots : ApiDeviceCallback(r)
  \/ \E r \in Slots : ReceiveRace(r)
  \/ \E r \in Slots : DeviceCallback(r)
  \/ Sweep

SpecApi == InitApi /\ [][NextApi]_vars

(***************************************************************************)
(* SpecLimiter: the limiter's functions called for one sender, as the      *)
(* handler calls them (an increment only after a check that allowed), with *)
(* the hourly sweep and the calendar day moving on.                        *)
(* lim: sender, calls (checkRateLimit calls made today), last and          *)
(* remaining (the latest call's `allowed` and `remaining`), fresh (the     *)
(* table is as the latest call read it), owed (allowed checks not yet      *)
(* followed by their increment: handlers between line 137 and line 285),   *)
(* paired (so far today every allowed check was followed by its increment  *)
(* before the next check, and no sweep removed the sender's record of      *)
(* today).  A handler that passed its check before midnight may reach its  *)
(* increment after it: getRateLimitKey reads the clock at each call.       *)
(* incs (incrementRateLimit calls made today), swept (the sweep has run    *)
(* today), purged (the latest sweep removed a record of an earlier day).   *)
(* The sweep is on an hourly timer (line 214), so between two midnights it *)
(* runs at least once; before the first midnight after the process        *)
(* started (day 1) it may not have run yet.                                *)
(***************************************************************************)
CheckCall ==
  /\ lim.calls < MaxCalls
  /\ LET rateCheck == checkRateLimit(rateLimits, lim.sender, today)
     IN  lim' = [lim EXCEPT !.calls = @ + 1, !.last = rateCheck.allowed,
                            !.remaining = rateCheck.remaining, !.fresh = TRUE,
                            !.paired = @ /\ lim.owed = 0,
                            !.owed = IF rateCheck.allowed THEN @ + 1 ELSE @]
  /\ UNCHANGED <<resend, webhookSecret, openaiKey, today, rateLimits, req, hist, fcall>>

IncrementCall ==
  /\ lim.owed > 0
  /\ rateLimits' = incrementRateLimit(rateLimits, lim.sender, today)
  /\ lim' = [lim EXCEPT !.owed = @ - 1, !.fresh = FALSE, !.incs = @ + 1]
  /\ UNCHANGED <<resend, webhookSecret, openaiKey, today, req, hist, fcall>>

SweepCall ==
  /\ rateLimits' = cleanupOldRateLimits(rateLimits, today)
  /\ LET key == getRateLimitKey(lim.sender, today)
     IN  lim' = [lim EXCEPT !.fresh = @ /\ rateLimits' = rateLimits,
                            !.paired = @ /\ (key \in DOMAIN rateLimits => key \in DOMAIN rateLimits'),
                            !.swept = TRUE,
                            !.purged = \E k \in DOMAIN rateLimits \ DOMAIN rateLimits' :
                                         k[2] # today]
  /\ UNCHANGED <<resend, webhookSecret, openaiKey, today, req, hist, fcall>>

\* midnight UTC
Tick ==
  /\ today < MaxDay
  /\ lim.owed <= MaxLate
  /\ today = 1 \/ lim.swept
  /\ today' = today + 1
  /\ lim' = [NoCalls EXCEPT !.sender = lim.sender, !.owed = lim.owed]
  /\ UNCHANGED <<resend, webhookSecret, openaiKey, rateLimits, req, hist, fcall>>

InitLimiter ==
  /\ resend = TRUE
  /\ webhookSecret = TRUE
  /\ openaiKey = TRUE
  /\ today = 1
  /\ rateLimits = <<>>
  /\ req = [r \in Slots |-> FreshReq]
  /\ hist = NoHist
  /\ \E s \in Senders : lim = [NoCalls EXCEPT !.sender = s]
  /\ fcall = NoCall

NextLimiter == CheckCall \/ IncrementCall \/ SweepCall \/ Tick

SpecLimiter == InitLimiter /\ [][NextLimiter]_vars

(***************************************************************************)
(* SpecValidate: validateImages called on every attachment list of up to   *)
(* MaxAttachments attachments.                                             *)
(***************************************************************************)
ValidateCall ==
  /\ \E attachments \in AttachmentLists :
       fcall' = [fn |-> "validateImages", arg |-> attachments,
                result |-> validateImages(attachments), pending |-> FALSE]
  /\ UNCHANGED <<resend, webhookSecret, openaiKey, today, rateLimits, req, hist, lim>>

InitValidate ==
  /\ resend = TRUE
  /\ webhookSecret = TRUE
  /\ openaiKey = TRUE
  /\ today = 2
  /\ rateLimits = <<>>
  /\ req = [r \in Slots |-> FreshReq]
  /\ hist = NoHist
  /\ lim = NoCalls
  /\ fcall = NoCall

NextValidate == ValidateCall

SpecValidate == InitValidate /\ [][NextValidate]_vars

(***************************************************************************)
(* SpecEncode: processImageForPrinting called once, on an image of up to   *)
(* MaxPixels black and white pixels or up to MaxGrayPixels grey and        *)
(* coloured pixels with the default maxWidth, or on an image of up to      *)
(* MaxSide x MaxSide pixels with a maxWidth of up to MaxTarget, of which   *)
(* the dimensions alone (lines 62-69) are computed.                        *)
(* fcall.pending: the call has not been made yet.                          *)
(***************************************************************************)
ProcessImage ==
  /\ fcall.fn = "processImageForPrinting"
  /\ fcall.pending
  /\ fcall' = [fcall EXCEPT !.pending = FALSE,
                            !.result = processImageForPrinting(fcall.arg, DEFAULT_MAX_WIDTH)]
  /\ UNCHANGED <<resend, webhookSecret, openaiKey, today, rateLimits, req, hist, lim>>

ProcessDimensions ==
  /\ fcall.fn = "dimensions"
  /\ fcall.pending
  /\ fcall' = [fcall EXCEPT !.pending = FALSE,
                            !.result = Resize(fcall.arg.width, fcall.arg.height,
                                              fcall.arg.maxWidth)]
  /\ UNCHANGED <<resend, webhookSecret, openaiKey, today, rateLimits, req, hist, lim>>

InitEncode ==
  /\ resend = TRUE
  /\ webhookSecret = TRUE
  /\ openaiKey = TRUE
  /\ today = 2
  /\ rateLimits = <<>>
  /\ req = [r \in Slots |-> FreshReq]
  /\ hist = NoHist
  /\ lim = NoCalls
  /\ \/ \E img \in Images(BinaryPixels, MaxPixels) \cup Images(GrayPixels, MaxGrayPixels) :
          fcall = [NoCall EXCEPT !.fn = "processImageForPrinting", !.arg = img,
                                 !.pending = TRUE]
     \/ \E width \in 1 .. MaxSide, height \in 1 .. MaxSide, maxWidth \in 1 .. MaxTarget :
          fcall = [NoCall EXCEPT !.fn = "dimensions",
                                 !.arg = [width |-> width, height |-> height,
                                          maxWidth |-> maxWidth],
                                 !.pending = TRUE]

NextEncode == ProcessImage \/ ProcessDimensions

SpecEncode == InitEncode /\ [][NextEncode]_vars

(***************************************************************************)
(* The claims                                                              *)
(***************************************************************************)
\* C1: for every sender and calendar day, under any interleaving of
\* concurrently handled webhook requests, the count recorded in the
\* rate-limit table never exceeds RATE_LIMIT_PER_DAY.
C1_CountWithinLimit ==
  \A k \in DOMAIN rateLimits : rateLimits[k] <= RATE_LIMIT_PER_DAY

\* C2: however many webhook requests of one sender are handled concurrently
\* on one day, those that pass the rate check and are dispatched exceed
\* RATE_LIMIT_PER_DAY by at most one: the recorded count never exceeds
\* RATE_LIMIT_PER_DAY + 1.
C2_AtMostOneOver ==
  \A k \in DOMAIN rateLimits : rateLimits[k] <= RATE_LIMIT_PER_DAY + 1

\* C3: when one sender's clean requests are handled one after another within
\* one calendar day and every dispatch succeeds, the first RATE_LIMIT_PER_DAY
\* of them end in Printed and every later one ends in RateLimited, with a
\* "limit reached" notification sent and nothing dispatched to the printer.
\* (hist.clean[s]: every request of s today was clean and no dispatch of
\* theirs failed; ord: the request's number among the sender's of the day.)
C3_FirstLimitPrintedRestLimited ==
  \A r \in Slots :
    LET rec == req[r]
    IN  Finished(rec) /\ rec.ord >= 1 /\ hist.clean[rec.sender] =>
          /\ rec.ord <= RATE_LIMIT_PER_DAY => rec.dev = "ok" /\ rec.blocked = "none"
          /\ rec.ord > RATE_LIMIT_PER_DAY =>
               /\ rec.blocked = "rate"
               /\ rec.notes = <<"limit">>
               /\ rec.dev = "none"

\* C4, as stated: within one calendar day the first DAILY_LIMIT calls of check
\* for a sender return allowed=true and every call from the
\* (DAILY_LIMIT+1)-th on returns allowed=false.
C4_DeniedFromCallLimitPlusOne ==
  lim.calls >= 1 => (lim.last <=> lim.calls <= RATE_LIMIT_PER_DAY)

\* C4, amended: check never changes the table and returns allowed=false
\* exactly when the count recorded for the sender and the current day is at
\* least DAILY_LIMIT, whatever the number of calls made: the (DAILY_LIMIT+1)-th
\* call is denied only if DAILY_LIMIT increments were recorded before it.
C4_DeniedFromLimitRecorded ==
  lim.calls >= 1 /\ lim.fresh =>
    (lim.last <=>
       Count(rateLimits, getRateLimitKey(lim.sender, today)) < RATE_LIMIT_PER_DAY)

\* C4's case: the (DAILY_LIMIT+1)-th call of a day, each earlier one followed
\* by its increment, is denied.
C4_Witness ==
  /\ lim.calls = RATE_LIMIT_PER_DAY + 1
  /\ lim.paired
  /\ lim.fresh
  /\ ~lim.last

StageRank(stage) ==
  CASE stage = "rate" -> 1
    [] stage = "text" -> 2
    [] stage = "validate" -> 3
    [] stage = "moderate" -> 4
    [] stage = "encode" -> 4
    [] stage = "dispatch" -> 5

RejectingStage(blocked) ==
  CASE blocked = "rate" -> "rate"
    [] blocked = "text" -> "text"
    [] blocked = "attachments" -> "validate"
    [] blocked = "image" -> "moderate"

\* C5: on the email path the stages run in the order rate-limit check, text
\* moderation, attachment validation, per-image moderation, dispatch, and a
\* request rejected at one stage runs no later stage.
C5_StagesInOrderAndStopAtRejection ==
  \A r \in Slots :
    LET rec == req[r]
        n == Len(rec.stages)
    IN  /\ \A i, j \in 1 .. n : i < j => StageRank(rec.stages[i]) <= StageRank(rec.stages[j])
        /\ rec.blocked # "none" => rec.stages[n] = RejectingStage(rec.blocked)

\* device.open(...) was called for the request
Dispatched(rec) == rec.dev \in {"opening", "failed", "ok"}

\* C6: a request whose attachment-validation verdict or any image-moderation
\* verdict is "not allowed" is never dispatched to the printer, whether the
\* rejection notification is sent or fails.
C6_RejectedNeverDispatched ==
  \A r \in Slots :
    req[r].blocked \in {"attachments", "image"} => ~Dispatched(req[r])

\* C7: on the email path the sender's count is incremented only after the
\* print dispatch reported success: a request whose device open or dispatch
\* reported failure has left the rate-limit table unchanged.
C7_IncrementOnlyAfterSuccess ==
  \A r \in Slots :
    Finished(req[r]) /\ req[r].touched => req[r].dev = "ok"

\* C8: on the email path, when the print dispatch reports failure the
\* request ends in PrintFailed, not Printed, and no confirmation or other
\* notification is sent to the sender.
C8_FailedDispatchNotifiesNobody ==
  \A r \in Slots :
    Finished(req[r]) /\ req[r].dev \in {"threw", "failed"} =>
      /\ req[r].notes = <<>>
      /\ req[r].resp # "printed"

\* C9: a request that ends in RateLimited, ContentBlocked,
\* AttachmentsRejected or ImageBlocked (the rate check, the text moderation,
\* the attachment validation or an image moderation said "not allowed") has
\* left the rate-limit table unchanged: none of its steps created or
\* incremented a record.
C9_RejectedLeavesTable ==
  \A r \in Slots : req[r].blocked # "none" => ~req[r].touched

\* what the request does when the notification of that kind is delivered
AsIfDelivered(rec, kind) ==
  CASE kind = "limit" -> rec.resp = "rate_limit" /\ ~Dispatched(rec) /\ ~rec.touched
    [] kind = "content" -> rec.resp = "content_filtered" /\ ~Dispatched(rec) /\ ~rec.touched
    [] kind = "attachments" -> rec.resp = "images_too_large" /\ ~Dispatched(rec) /\ ~rec.touched
    [] kind = "image" -> rec.resp = "image_content_filtered" /\ ~Dispatched(rec) /\ ~rec.touched
    [] kind = "confirm" -> rec.resp = "printed" /\ Dispatched(rec) /\ rec.touched

\* C10: a failure of the notification primitive never changes a request's
\* terminal outcome or its HTTP response: at every stage that sends a
\* notification, the response, the printer effect and the rate-limit effect
\* are those of a delivered notification.
C10_NotificationFailureChangesNothing ==
  \A r \in Slots :
    req[r].pc = "done" =>
      \A i \in 1 .. Len(req[r].notes) : AsIfDelivered(req[r], req[r].notes[i])

\* the positions where the handler awaits a collaborator call
AwaitingPcs ==
  {"verify", "limitNotify", "contentNotify", "fetch", "attNotify", "modImage",
   "imgNotify", "encode", "confirm"}

\* C11: every request that enters the email pipeline reaches a terminal state
\* and is answered, provided every collaborator call returns, with success or
\* with failure: at any moment a request is either awaiting a collaborator
\* call or has ended with an HTTP response sent.
C11_EndsAnswered ==
  \A r \in Slots :
    req[r].path = "webhook" =>
      \/ req[r].pc \in AwaitingPcs
      \/ req[r].pc = "done" /\ req[r].resp \notin {"none", "unanswered"}

\* C12: each request, on either path, produces exactly one terminal outcome:
\* once the handler and the callback of its device have run, exactly one HTTP
\* response was sent, at most one notification was handed to the notification
\* primitive, and the print dispatch was invoked at most once.
C12_OneResponseOneNotificationOneDispatch ==
  \A r \in Slots :
    Finished(req[r]) =>
      /\ req[r].resp \notin {"none", "unanswered"}
      /\ Len(req[r].notes) <= 1
      /\ Cardinality({i \in 1 .. Len(req[r].stages) : req[r].stages[i] = "dispatch"}) <= 1

\* C13: the printer is a single exclusively owned resource: across all
\* concurrently handled API and webhook requests, at most one dispatch (from
\* device.open to the end of its callback) is in progress at any time.
C13_OneDispatchAtATime ==
  Cardinality({r \in Slots : req[r].dev = "opening"}) <= 1

\* svix-id, svix-timestamp or svix-signature is missing
HeadersMissing(headers) ==
  ~headers.id \/ ~headers.timestamp \/ headers.signature = <<>>

\* no entry of svix-signature is a v1 entry carrying the expected signature
NoV1Match(headers) ==
  \A i \in 1 .. Len(headers.signature) :
    headers.signature[i].version # "v1" \/ ~headers.signature[i].matches

\* C14: when a webhook secret is configured, an inbound event whose signature
\* headers are missing or match no v1 signature is rejected with 401 before
\* any rate-limit check, moderation, notification, attachment fetch or
\* dispatch, and leaves all state unchanged.
C14_BadSignatureRejectedFirst ==
  \A r \in Slots :
    LET rec == req[r]
    IN  webhookSecret /\ rec.path = "webhook"
          /\ (HeadersMissing(rec.sig) \/ NoV1Match(rec.sig)) =>
          /\ rec.pc \in {"verify", "done"}
          /\ rec.pc = "done" => rec.resp = "401"
          /\ rec.stages = <<>>
          /\ rec.notes = <<>>
          /\ rec.dev = "none"
          /\ rec.sender = "none"
          /\ ~rec.touched

\* C14's case: an event signed with the right signature under another
\* version than v1 was answered 401, the table holding records.
C14_Witness ==
  /\ webhookSecret
  /\ req[1].resp = "401"
  /\ ~HeadersMissing(req[1].sig)
  /\ NoV1Match(req[1].sig)
  /\ \E i \in 1 .. Len(req[1].sig.signature) : req[1].sig.signature[i].matches
  /\ rateLimits # <<>>

\* the bearer credential an Authorization header presents: what follows a
\* leading 'Bearer '; the empty string when the header is absent or does not
\* start with 'Bearer '
PresentedBearer(authorization) ==
  IF authorization.present /\ authorization.value # <<>>
       /\ Head(authorization.value) = BEARER
    THEN Tail(authorization.value)
    ELSE <<>>

\* C15: on the authenticated API path the printer is dispatched to only when
\* the presented bearer credential equals AUTH_TOKEN and the message is
\* non-empty; a wrong or missing credential yields 401 and a missing or empty
\* message yields 400, in both cases with nothing printed, and the path never
\* changes the rate-limit table.
C15_ApiDispatchOnlyWithBearerToken ==
  \A r \in Slots :
    LET rec == req[r]
    IN  rec.path = "api" /\ rec.pc = "done" =>
          /\ ~rec.touched
          /\ IF PresentedBearer(rec.auth) # AUTH_TOKEN
               THEN rec.resp = "401" /\ rec.dev = "none"
             ELSE IF rec.message.length = 0
               THEN rec.resp = "400" /\ rec.dev = "none"
             ELSE rec.stages = <<"dispatch">>

\* C16: if fetching the email's attachments from the provider fails, the
\* request is still dispatched, with zero images and its text, and proceeds as
\* a text-only email does: no validation or moderation stage runs, and unless
\* the device throws the count is incremented and the confirmation is sent.
C16_FetchFailurePrintsTextOnly ==
  \A r \in Slots :
    LET rec == req[r]
    IN  rec.fetchFailed =>
          /\ rec.stages = <<"rate", "text", "dispatch">>
          /\ rec.images = 0
          /\ rec.blocked = "none"
          /\ ~rec.message.keyword
          /\ IF rec.dev = "threw"
               THEN rec.resp = "500_print_failed" /\ ~rec.touched /\ rec.notes = <<>>
               ELSE Dispatched(rec) /\ rec.touched /\ rec.notes = <<"confirm">>

\* C16's case: the fetch failed and the email's text was printed and confirmed.
C16_Witness ==
  /\ req[1].fetchFailed
  /\ req[1].message = CleanText
  /\ req[1].dev = "ok"
  /\ req[1].resp = "printed"

\* C17: when an image moderator is configured, a moderation call that errors
\* or returns a non-OK response yields a blocked verdict, so the request ends
\* in ImageBlocked and is not dispatched; an image is admitted (goes on to be
\* encoded) only by a successful call whose answer does not contain "unsafe".
C17_ModerationFailsClosed ==
  \A r \in Slots :
    LET rec == req[r]
    IN  openaiKey =>
          /\ rec.modCall \in {"throws", "not_ok"} =>
               rec.blocked = "image" /\ ~Dispatched(rec)
          /\ rec.pc = "encode" => rec.modCall = "safe"

\* C18: moderate(text) returns allowed=false for every text longer than
\* MAX_TEXT_LENGTH characters, whether or not it contains a blocklisted token,
\* so no email whose extracted text exceeds the limit is printed: it is
\* blocked at the text stage and never dispatched.
C18_LongTextBlocked ==
  \A r \in Slots :
    LET rec == req[r]
    IN  rec.path = "webhook" /\ rec.message.length > MAX_TEXT_LENGTH =>
          /\ ~moderateContent(rec.message).allowed
          /\ rec.blocked = "text"
          /\ ~Dispatched(rec)

\* the indexes of the image-typed attachments of a list
ImageIndexes(attachments) ==
  {i \in 1 .. Len(attachments) : attachments[i].type = "image"}

\* the sizes of the image-typed attachments among the first n of a list, added up
RECURSIVE ImageSizeSum(_, _)
ImageSizeSum(attachments, n) ==
  IF n = 0 THEN 0
  ELSE ImageSizeSum(attachments, n - 1)
         + (IF attachments[n].type = "image" THEN attachments[n].size ELSE 0)

\* the reason of the first failing check, in the order count, size, total;
\* "" when none fails
FirstFailingCheck(attachments) ==
  IF Cardinality(ImageIndexes(attachments)) > MAX_IMAGES_PER_EMAIL
    THEN "Too many images"
  ELSE IF \E i \in ImageIndexes(attachments) : attachments[i].size > MAX_IMAGE_SIZE_MB
    THEN "Image too large"
  ELSE IF ImageSizeSum(attachments, Len(attachments)) > MAX_TOTAL_EMAIL_SIZE_MB
    THEN "Total email too large"
  ELSE ""

\* C19: for every attachment list, validate considers only image-typed
\* attachments and returns the reason of the first failing check in the order
\* image count > MAX_IMAGES_PER_EMAIL, some image size > MAX_IMAGE_SIZE_MB, sum
\* of image sizes > MAX_TOTAL_EMAIL_SIZE_MB; it returns allowed exactly when
\* none of the three fails, and an empty list is allowed.
C19_FirstFailingCheckReturned ==
  fcall.fn = "validateImages" =>
    /\ fcall.result.reason = FirstFailingCheck(fcall.arg)
    /\ fcall.result.allowed <=> FirstFailingCheck(fcall.arg) = ""
    /\ fcall.arg = <<>> => fcall.result.allowed

\* C19's case: three images, one of them over the size limit: both the count
\* check and the size check fail, and the count's reason is returned.
C19_Witness ==
  /\ fcall.fn = "validateImages"
  /\ Cardinality(ImageIndexes(fcall.arg)) = MAX_IMAGES_PER_EMAIL + 1
  /\ \E i \in ImageIndexes(fcall.arg) : fcall.arg[i].size > MAX_IMAGE_SIZE_MB
  /\ fcall.result = [allowed |-> FALSE, reason |-> "Too many images"]

\* the step in which the handler in slot r calls incrementRateLimit (line 285)
\* and builds the confirmation text from rateCheck.remaining - 1 (line 294);
\* the callback prints the same number in the receipt footer (line 277)
IncrementsIn(r) == req'[r] # req[r] /\ rateLimits' # rateLimits

\* C20: when a request ends in Printed, the remaining quota reported in the
\* confirmation notification and the receipt footer equals RATE_LIMIT_PER_DAY
\* minus the sender's recorded count for that day immediately after the
\* increment.
C20_ReportedQuotaIsQuotaAfterIncrement ==
  [][\A r \in Slots :
       IncrementsIn(r) =>
         req'[r].remaining - 1 =
           RATE_LIMIT_PER_DAY
             - Count(rateLimits', getRateLimitKey(req'[r].sender, today))]_vars

\* C21: the quota resets at the calendar-day boundary: for any sender and any
\* history on earlier days (including being rate-limited), the first check on
\* a new calendar day returns allowed=true with remaining = RATE_LIMIT_PER_DAY,
\* whether or not the sweep has run.
C21_FirstCheckOfDayFull ==
  today > 1 /\ lim.calls = 1 =>
    lim.last /\ lim.remaining = RATE_LIMIT_PER_DAY

\* C22: for every width and height, the bitmap equals the reference packing
\* of the binary image: rows top to bottom, each row exactly ceil(width/8)
\* bytes, pixel x of row y stored in bit 7-(x mod 8) of byte floor(x/8) of that
\* row, bit 1 exactly when the pixel is black, unused trailing bits 0; hence
\* the total length is height * ceil(width/8).
C22_BitmapIsReferencePacking ==
  fcall.fn = "processImageForPrinting" /\ ~fcall.pending =>
    LET width == fcall.result.width
        height == fcall.result.height
        pixels == fcall.result.ditheredPixels
        bitmap == fcall.result.bitmap
        rowBytes == CHOOSE n \in 0 .. width : 8 * n >= width /\ 8 * (n - 1) < width
    IN  /\ Len(bitmap) = height * rowBytes
        /\ \A y \in 0 .. height - 1, b \in 0 .. rowBytes - 1, k \in 0 .. 7 :
             LET x == 8 * b + (7 - k)
                 byte == bitmap[y * rowBytes + b + 1]
             IN  /\ byte \in 0 .. 255
                 /\ (byte \div 2 ^ k) % 2 = 1 <=>
                      (x < width /\ pixels[(y * width + x) * 4 + 1] = 0)

\* C22's case: a row of ten pixels takes two bytes; the last pixel is black,
\* the one before it white, and the second byte is 01000000.
C22_Witness ==
  /\ fcall.fn = "processImageForPrinting"
  /\ ~fcall.pending
  /\ fcall.result.width = 10
  /\ fcall.result.height = 1
  /\ fcall.result.ditheredPixels[8 * 4 + 1] = 255
  /\ fcall.result.ditheredPixels[9 * 4 + 1] = 0
  /\ Len(fcall.result.bitmap) = 2
  /\ fcall.result.bitmap[2] = 64

\* every pixel of the data is pure black or pure white
IsBinary(data) ==
  \A n \in 0 .. Len(data) \div 4 - 1 :
    \/ \A c \in 1 .. 3 : data[4 * n + c] = 0
    \/ \A c \in 1 .. 3 : data[4 * n + c] = 255

\* the bit of pixel (x, y) under direct thresholding: 1 when it lies in the
\* image and is darker than 128
ThresholdBit(data, width, x, y) ==
  IF x < width /\ data[(y * width + x) * 4 + 1] < 128 THEN 1 ELSE 0

\* the bitmap of direct per-pixel thresholding
DirectThreshold(data, width, height) ==
  LET rowBytes == (width + 7) \div 8
  IN  [i \in 1 .. height * rowBytes |->
         LET y == (i - 1) \div rowBytes
             b == (i - 1) % rowBytes
         IN  128 * ThresholdBit(data, width, 8 * b, y)
               + 64 * ThresholdBit(data, width, 8 * b + 1, y)
               + 32 * ThresholdBit(data, width, 8 * b + 2, y)
               + 16 * ThresholdBit(data, width, 8 * b + 3, y)
               + 8 * ThresholdBit(data, width, 8 * b + 4, y)
               + 4 * ThresholdBit(data, width, 8 * b + 5, y)
               + 2 * ThresholdBit(data, width, 8 * b + 6, y)
               + ThresholdBit(data, width, 8 * b + 7, y)]

\* C23: dithering is the identity on already-binary input: for every image
\* whose pixels are all pure black (0) or pure white (255), encoded at native
\* resolution, every diffused error is zero (the dithered pixels are the
\* input's) and the bitmap equals direct per-pixel thresholding, including at
\* the image borders; in particular a solid-white image yields all-zero bits.
C23_BinaryInputUnchanged ==
  fcall.fn = "processImageForPrinting" /\ ~fcall.pending /\ IsBinary(fcall.arg.data) =>
    /\ fcall.result.width = fcall.arg.width
    /\ fcall.result.height = fcall.arg.height
    /\ fcall.result.ditheredPixels = fcall.arg.data
    /\ fcall.result.bitmap =
         DirectThreshold(fcall.arg.data, fcall.arg.width, fcall.arg.height)
    /\ (\A i \in 1 .. Len(fcall.arg.data) : fcall.arg.data[i] = 255) =>
         \A i \in 1 .. Len(fcall.result.bitmap) : fcall.result.bitmap[i] = 0

\* C23's case: the 3 x 3 checkerboard with black corners comes out as the
\* rows 101, 010, 101.
C23_Witness ==
  /\ fcall.fn = "processImageForPrinting"
  /\ ~fcall.pending
  /\ fcall.arg.width = 3
  /\ fcall.arg.height = 3
  /\ fcall.arg.data =
       Flatten(<<BLACK, WHITE, BLACK, WHITE, BLACK, WHITE, BLACK, WHITE, BLACK>>)
  /\ fcall.result.bitmap = <<160, 64, 160>>

\* C24: for every source size N x M and every maxWidth, the encoded width is
\* min(N, maxWidth) and the encoded height is M when N <= maxWidth and
\* floor(M * maxWidth / N) otherwise; the image is never upscaled.
C24_HeightIsFloorOfExactScale ==
  fcall.fn = "dimensions" /\ ~fcall.pending =>
    LET N == fcall.arg.width
        M == fcall.arg.height
        maxWidth == fcall.arg.maxWidth
    IN  /\ fcall.result.width = IF N <= maxWidth THEN N ELSE maxWidth
        /\ fcall.result.height = IF N <= maxWidth THEN M ELSE (M * maxWidth) \div N
        /\ fcall.result.width <= N
        /\ fcall.result.height <= M

\* g with v added to the value of pixel (x, y); a pixel outside the grid is skipped
AddToGray(g, width, height, x, y, v) ==
  IF x >= 0 /\ x < width /\ y < height
    THEN [g EXCEPT ![y * width + x + 1] = @ + v]
    ELSE g

\* Floyd-Steinberg in raster order from pixel n on, in exact arithmetic: the
\* values of g are grey values times 3 * unit, unit a power of 16 high enough
\* for every sixteenth of an error to be an integer
RECURSIVE FloydSteinbergFrom(_, _, _, _, _)
FloydSteinbergFrom(g, width, height, unit, n) ==
  IF n >= width * height THEN g
  ELSE
    LET y == n \div width
        x == n % width
        old == g[n + 1]
        new == IF old < 128 * 3 * unit THEN 0 ELSE 255 * 3 * unit
        sixteenth == (old - new) \div 16
        g0 == [g EXCEPT ![n + 1] = new]
        g1 == AddToGray(g0, width, height, x + 1, y, 7 * sixteenth)
        g2 == AddToGray(g1, width, height, x - 1, y + 1, 3 * sixteenth)
        g3 == AddToGray(g2, width, height, x, y + 1, 5 * sixteenth)
        g4 == AddToGray(g3, width, height, x + 1, y + 1, sixteenth)
    IN  FloydSteinbergFrom(g4, width, height, unit, n + 1)

\* the binary image (0 or 255 per pixel) of single-pass Floyd-Steinberg on the
\* unweighted mean of red, green and blue
FloydSteinberg(data, width, height) ==
  LET unit == 16 ^ (width * height - 1)
      gray == [n \in 1 .. width * height |->
                 (data[4 * n - 3] + data[4 * n - 2] + data[4 * n - 1]) * unit]
      g == FloydSteinbergFrom(gray, width, height, unit, 0)
  IN  [n \in 1 .. width * height |-> g[n] \div (3 * unit)]

\* C25: for every RGB(A) pixel grid, the binary image produced by ditherImage
\* equals single-pass raster-order Floyd-Steinberg applied to the grayscale
\* buffer (unweighted mean of R, G, B): value < 128 becomes black and value
\* >= 128 becomes white, error = old - new, diffused 7/16 right, 3/16
\* bottom-left, 5/16 bottom, 1/16 bottom-right, out-of-grid neighbours skipped,
\* with the accumulated working values neither clamped nor rounded.
\* (Stated of the grids of up to MaxGrayPixels pixels.)
C25_DitherIsExactFloydSteinberg ==
  /\ fcall.fn = "processImageForPrinting"
  /\ ~fcall.pending
  /\ fcall.arg.width * fcall.arg.height <= MaxGrayPixels
  => LET reference == FloydSteinberg(fcall.arg.data, fcall.arg.width, fcall.arg.height)
     IN  \A n \in 1 .. fcall.arg.width * fcall.arg.height :
           \A c \in 1 .. 3 : fcall.result.ditheredPixels[4 * (n - 1) + c] = reference[n]

\* C26: no image of a request is encoded until every image attachment of that
\* request has been moderated and allowed; a request that ends in ImageBlocked
\* has encoded no image.  (A stage "encode" is a call of
\* processImageForPrinting, a stage "moderate" a call of moderateImage.)
C26_EncodeAfterAllModerated ==
  \A r \in Slots :
    LET stages == req[r].stages
    IN  /\ \A i, j \in 1 .. Len(stages) :
             i < j => ~(stages[i] = "encode" /\ stages[j] = "moderate")
        /\ req[r].blocked = "image" =>
             \A i \in 1 .. Len(stages) : stages[i] # "encode"

SweepStep ==
  /\ today' = today
  /\ lim'.swept
  /\ lim'.calls = lim.calls
  /\ lim'.owed = lim.owed
  /\ lim'.incs = lim.incs

\* C28: the sweep never removes or changes a record of the current day, for
\* any sender: checkRateLimit returns the same result for every sender right
\* before and right after a sweep of the same day.
C28_SweepKeepsTodaysRecords ==
  [][SweepStep =>
       /\ \A k \in DOMAIN rateLimits :
            k[2] = today => k \in DOMAIN rateLimits' /\ rateLimits'[k] = rateLimits[k]
       /\ \A s \in Senders :
            checkRateLimit(rateLimits', s, today) = checkRateLimit(rateLimits, s, today)]_vars

\* C29: whatever the interleaving of the handlers, no increment is lost: the
\* count recorded for the sender and the current day equals the number of
\* handlers that reached incrementRateLimit on that day.
C29_NoIncrementLost ==
  Count(rateLimits, getRateLimitKey(lim.sender, today)) = lim.incs

ImagesIn(types) == Cardinality({i \in 1 .. Len(types) : types[i] = "image"})

\* C30: a dispatched print job of the webhook carries every image attachment
\* of the email or none: when the handling of some attachment throws part-way
\* through the list, no image encoded before it is printed.
C30_JobCarriesAllImagesOrNone ==
  [][\A r \in Slots :
       req[r].dev = "none" /\ req'[r].dev = "opening" /\ req'[r].path = "webhook"
       => \/ req'[r].images = 0
          \/ req'[r].images = req[r].images + ImagesIn(req[r].atts)]_vars

\* C31: with the configured limits (at most 2 images, 5 MB per image, 10 MB in
\* total) validateImages never returns the 'Total email too large' rejection:
\* every attachment list that passes the count check and the per-image size
\* check is allowed.
C31_TotalCheckNeverRejects ==
  fcall.fn = "validateImages" =>
    /\ fcall.result.reason # "Total email too large"
    /\ ( /\ Cardinality(ImageIndexes(fcall.arg)) <= MAX_IMAGES_PER_EMAIL
         /\ \A i \in ImageIndexes(fcall.arg) : fcall.arg[i].size <= MAX_IMAGE_SIZE_MB )
       => fcall.result.allowed

\* C31's case: as many images as allowed, each of the largest size allowed, so
\* that the total is exactly MAX_TOTAL_EMAIL_SIZE_MB, and the list is allowed.
C31_Witness ==
  /\ fcall.fn = "validateImages"
  /\ Cardinality(ImageIndexes(fcall.arg)) = MAX_IMAGES_PER_EMAIL
  /\ \A i \in ImageIndexes(fcall.arg) : fcall.arg[i].size = MAX_IMAGE_SIZE_MB
  /\ ImageSizeSum(fcall.arg, Len(fcall.arg)) = MAX_TOTAL_EMAIL_SIZE_MB
  /\ fcall.result = [allowed |-> TRUE, reason |-> ""]

====
